---- MODULE Spec2Model ----
(***************************************************************************)
(* Queue ranking of the energy-aware site director.                        *)
(*                                                                         *)
(*   Variant A  src/Inheritance/GreenSiteDirector.py  (PUE, CI) ordering   *)
(*   Variant B  src/test.py                           composite score      *)
(*   Agent      src/QuerySitesAgent.py                listing agent        *)
(*                                                                         *)
(* An ordered Python dict is a sequence of items [name, qdict]; a qdict    *)
(* and its ParametersDict are functions whose DOMAIN is the set of keys    *)
(* present.  PUE is counted in hundredths (round(x, 2)), CI in tenths      *)
(* (round(x, 1)), CO2 in hundredths of g/kWh, CPUTime in seconds.          *)
(***************************************************************************)
EXTENDS Integers, Sequences, FiniteSets, TLC

VARIABLES
    program,        \* the class this process runs
    queueDict,      \* self.queueDict, in iteration order
    queueCECache,   \* self.queueCECache, the set of its keys
    catalog,        \* what the configuration service holds: the queues the
                    \* resolver returns, in resolution order
    stage,          \* which handler the agent framework calls next
    cycleResult,    \* what the last handler returned, or the exception that
                    \* left it
    submitted,      \* the parent execute() ran in the current cycle
    resolved,       \* <<result["Value"]>> of the resolver call of the last
                    \* handler, <<>> when that call was not reached or failed
    cacheSeen,      \* <<cache>> the listing agent handed to the resolver last
    probeLog,       \* per queue of the last listing, how its probe ended
    external_data,  \* the argument of the _computeQueueScores call that gave
                    \* queueDict the scores it carries, <<>> when it has none
    ce_stats,       \* what available() returned to that call: ce_stats[i]
                    \* is the result used for queueDict[i]
    rerank          \* <<[site, before]>> when that call ranked again the
                    \* queues and loads of the call before it with the CO2
                    \* of one site raised: the site, and the order before

vars == <<program, queueDict, queueCECache, catalog, stage, cycleResult,
          submitted, resolved, cacheSeen, probeLog, external_data, ce_stats,
          rerank>>

----------------------------------------------------------------------------
(* Bounds of the model.                                                    *)

\* The most queues the catalog holds.
MaxQueues == 2

\* Load snapshots a mock CE can report: MaxLoadSteps + 1 of them.
MaxLoadSteps == 1

QueueUniverse == <<"q1", "q2", "q3", "q4">>

QueueNames == {QueueUniverse[i] : i \in 1..MaxQueues}

SiteOf(q) == IF q \in {"q1", "q3"} THEN "CERN.ch" ELSE "RAL.uk"

CEOf(q) == IF q \in {"q1", "q3"} THEN "ce1.cern" ELSE "ce1.ral"

\* PUE / CI values a site may publish in its queue parameters.
PublishedPUE == {150}
PublishedCI == {3000}

----------------------------------------------------------------------------
(* Python helpers.                                                         *)

\* Tuple comparison a < b, element by element.
RECURSIVE LexLess(_, _)
LexLess(a, b) ==
    IF a = <<>> THEN b # <<>>
    ELSE IF b = <<>> THEN FALSE
    ELSE IF Head(a) # Head(b) THEN Head(a) < Head(b)
    ELSE LexLess(Tail(a), Tail(b))

\* The place of s[i] after a stable ascending sort by key: behind every
\* element with a smaller key and every earlier element with an equal key.
StableRank(s, i) ==
    1 + Cardinality({j \in 1..Len(s) :
                        \/ LexLess(s[j].key, s[i].key)
                        \/ s[j].key = s[i].key /\ j < i})

\* As StableRank, with equal keys in reverse order.
ReverseTieRank(s, i) ==
    1 + Cardinality({j \in 1..Len(s) :
                        \/ LexLess(s[j].key, s[i].key)
                        \/ s[j].key = s[i].key /\ j > i})

\* The sorts below bind the value of their argument once, as t.

\* A sort that keeps the first element of each key.
SortDistinctKeys(s) ==
    CHOOSE r \in
        {LET firsts == {i \in 1..Len(t) : \A j \in 1..(i - 1) : t[j].key # t[i].key}
         IN [p \in 1..Cardinality(firsts) |->
                t[CHOOSE i \in firsts :
                     Cardinality({j \in firsts : LexLess(t[j].key, t[i].key)}) = p - 1]]
         : t \in {s}} : TRUE

\* A sort that puts equal keys in reverse order.
SortUnstable(s) ==
    CHOOSE r \in
        {[p \in 1..Len(t) |-> t[CHOOSE i \in 1..Len(t) : ReverseTieRank(t, i) = p]]
         : t \in {s}} : TRUE

\* sorted(items, key=...) on items already paired with their keys: Python's
\* sort is stable.
sorted(s) ==
    CHOOSE r \in
        {[p \in 1..Len(t) |-> t[CHOOSE i \in 1..Len(t) : StableRank(t, i) = p]]
         : t \in {s}} : TRUE

Undecorate(s) == [i \in 1..Len(s) |-> s[i].item]

Names(d) == {d[i].name : i \in 1..Len(d)}

NameSeq(d) == [i \in 1..Len(d) |-> d[i].name]

Position(d, n) == CHOOSE i \in 1..Len(d) : d[i].name = n

HasParams(item) == "ParametersDict" \in DOMAIN item.qdict

Params(item) == item.qdict.ParametersDict

----------------------------------------------------------------------------
(* The external collaborators: site catalog, resolver, random source.      *)

\* A queue's parameters: CPUTime always, PUE and CI only when published
\* (p and c are <<>> or <<value>>).
MakeParams(p, c) ==
    [k \in {"CPUTime"} \cup (IF p = <<>> THEN {} ELSE {"PUE"})
                       \cup (IF c = <<>> THEN {} ELSE {"CI"})
        |-> IF k = "PUE" THEN p[1] ELSE IF k = "CI" THEN c[1] ELSE 3600]

ParamChoices ==
    {MakeParams(p, c) : p \in {<<>>} \cup {<<v>> : v \in PublishedPUE},
                        c \in {<<>>} \cup {<<v>> : v \in PublishedCI}}

\* The descriptor the resolver builds for queue q.
Descriptor(q, params) ==
    [Site |-> SiteOf(q), CEName |-> CEOf(q), CE |-> CEOf(q),
     ParametersDict |-> params]

\* A descriptor without its parameters mapping.
BareDescriptor(q) == [Site |-> SiteOf(q), CEName |-> CEOf(q), CE |-> CEOf(q)]

\* The orders in which n of the queues can be resolved.
Orders(n) == {p \in [1..n -> QueueNames] : \A i, j \in 1..n : p[i] = p[j] => i = j}

Sites == {"CERN.ch", "RAL.uk"}

\* PUE and CI are published per site: the queues of a site carry the same.
\* Every queue of the catalog carries a ParametersDict.
WellFormedCatalogs ==
    UNION {{[i \in 1..n |-> [name |-> p[i], qdict |-> Descriptor(p[i], d[SiteOf(p[i])])]] :
               p \in Orders(n), d \in [Sites -> ParamChoices]} : n \in 0..MaxQueues}

\* Exactly one queue of the catalog lacks its ParametersDict.
MalformedCatalogs ==
    UNION {{[i \in 1..n |->
               [name |-> p[i],
                qdict |-> IF i = m THEN BareDescriptor(p[i])
                          ELSE Descriptor(p[i], d[SiteOf(p[i])])]] :
               p \in Orders(n), d \in [Sites -> ParamChoices], m \in 1..n} :
           n \in 1..MaxQueues}

\* getQueues followed by getQueuesResolved: the catalog's queues, in order.
getQueuesResolved == catalog

\* The cache entries the resolver adds: one per CE it instantiates.
CEsOf(d) == {d[i].qdict.CE : i \in 1..Len(d)}

\* How a call to a collaborator ends: S_OK, S_ERROR, or an exception.
CallOutcomes == {"OK", "ERROR", "RAISE"}

\* round(random.uniform(1.0, 2.0), 2) and round(random.uniform(100.0, 500.0), 1):
\* the two ends of each range stand for the draws.
SynthPUE == {100, 200}
SynthCI == {1000, 5000}

----------------------------------------------------------------------------
(* Variant A: GreenSiteDirector._buildQueueDict and execute.               *)

\* A synthesis that overwrites published values.
AnnotateAll(item) ==
    {[item EXCEPT !.qdict.ParametersDict =
          ("PUE" :> p) @@ ("CI" :> c) @@ Params(item)] :
        p \in SynthPUE, c \in SynthCI}

\* Step 3 of _buildQueueDict on one item: the annotated items it can become.
\* params is qdict.get("ParametersDict", {}): with the key absent the values
\* go to a temporary dict and the item is left as it was.
AnnotateOne(item) ==
    IF ~HasParams(item) THEN {item}
    ELSE {[item EXCEPT !.qdict.ParametersDict =
              Params(item) @@ ("PUE" :> p) @@ ("CI" :> c)] :
            p \in SynthPUE, c \in SynthCI}

RECURSIVE Annotate(_)
Annotate(d) ==
    IF d = <<>> THEN {<<>>}
    ELSE {<<h>> \o t : h \in AnnotateOne(Head(d)), t \in Annotate(Tail(d))}

\* A key that forgets CI.
KeyPUEOnly(item) == <<Params(item).PUE>>

\* The sort key of step 4.
SortKeyA(item) == <<Params(item).PUE, Params(item).CI>>

DecorateA(d) == [i \in 1..Len(d) |-> [key |-> SortKeyA(d[i]), item |-> d[i]]]

\* The key function raises KeyError on an item without ParametersDict.
SortRaisesA(d) == \E i \in 1..Len(d) : ~HasParams(d[i])

SortA(d) == Undecorate(sorted(DecorateA(d)))

buildQueueDict(getQ, resQ) ==
    /\ program = "GreenSiteDirector"
    /\ stage = "begin"
    /\ submitted' = FALSE
    /\ UNCHANGED <<program, catalog, cacheSeen, probeLog, external_data, ce_stats,
                   rerank>>
    /\ IF getQ = "ERROR"
       THEN /\ cycleResult' = "CatalogError"
            /\ stage' = "begin"
            /\ resolved' = <<>>
            /\ UNCHANGED <<queueDict, queueCECache>>
       ELSE IF getQ = "RAISE"
       THEN /\ cycleResult' = "OK"
            /\ stage' = "execute"
            /\ resolved' = <<>>
            /\ UNCHANGED <<queueDict, queueCECache>>
       ELSE IF resQ = "ERROR"
       THEN /\ cycleResult' = "ResolveError"
            /\ stage' = "begin"
            /\ resolved' = <<>>
            /\ UNCHANGED <<queueDict, queueCECache>>
       ELSE IF resQ = "RAISE"
       THEN /\ cycleResult' = "OK"
            /\ stage' = "execute"
            /\ resolved' = <<>>
            /\ UNCHANGED <<queueDict, queueCECache>>
       ELSE LET value == getQueuesResolved IN
            /\ resolved' = <<value>>
            /\ queueCECache' = queueCECache \cup CEsOf(value)
            /\ \E annotated \in Annotate(value) :
                  queueDict' = IF SortRaisesA(annotated) THEN annotated
                               ELSE SortA(annotated)
            /\ cycleResult' = "OK"
            /\ stage' = "execute"

GreenSiteDirector_execute(parentOK) ==
    /\ program = "GreenSiteDirector"
    /\ stage = "execute"
    /\ submitted' = TRUE
    /\ cycleResult' = IF parentOK THEN "OK" ELSE "SubmitError"
    /\ stage' = "begin"
    /\ UNCHANGED <<program, queueDict, queueCECache, catalog, resolved, cacheSeen,
                   probeLog, external_data, ce_stats, rerank>>

BuildStep ==
    \E getQ \in CallOutcomes :
        \E resQ \in IF getQ = "OK" THEN CallOutcomes ELSE {"OK"} :
            buildQueueDict(getQ, resQ)

ExecuteStep == \E parentOK \in BOOLEAN : GreenSiteDirector_execute(parentOK)

----------------------------------------------------------------------------
(* The listing agent: SiteInfoAgent.execute.                               *)

\* How the probe of one queue ends in the listing loop: live status printed,
\* or a warning (not-OK result, exception, or no CE object).
ProbeEndings == {"live", "warn"}

SiteInfoAgent_execute(getQ, resQ, probes) ==
    /\ program = "SiteInfoAgent"
    /\ UNCHANGED <<program, catalog, stage, submitted, external_data, ce_stats,
                   rerank>>
    /\ IF getQ = "ERROR"
       THEN /\ cycleResult' = "CatalogError"
            /\ resolved' = <<>>
            /\ cacheSeen' = <<>>
            /\ probeLog' = <<>>
            /\ UNCHANGED <<queueDict, queueCECache>>
       ELSE IF catalog = <<>>
       THEN /\ cycleResult' = "OK"
            /\ resolved' = <<>>
            /\ cacheSeen' = <<>>
            /\ probeLog' = <<>>
            /\ UNCHANGED <<queueDict, queueCECache>>
       ELSE IF resQ = "ERROR"
       THEN /\ cycleResult' = "ResolveError"
            /\ resolved' = <<>>
            /\ cacheSeen' = <<{}>>
            /\ probeLog' = <<>>
            /\ queueCECache' = {}
            /\ UNCHANGED queueDict
       ELSE LET value == getQueuesResolved IN
            /\ resolved' = <<value>>
            /\ cacheSeen' = <<{}>>
            /\ queueCECache' = CEsOf(value)
            /\ queueDict' = value
            /\ probeLog' = [i \in 1..Len(value) |-> probes[i]]
            /\ cycleResult' = "OK"

AgentStep ==
    \E getQ \in {"OK", "ERROR"} :
        \E resQ \in IF getQ = "OK" THEN {"OK", "ERROR"} ELSE {"OK"} :
            \E probes \in IF getQ = "OK" /\ resQ = "OK"
                          THEN [1..Len(catalog) -> ProbeEndings]
                          ELSE {<<>>} :
                SiteInfoAgent_execute(getQ, resQ, probes)

----------------------------------------------------------------------------
(* Variant B: the mock director of test.py.                                *)
(* A queue name f"{site}-{ce_name}-{q}" is the tuple <<site, ce_num, q>>;  *)
(* a composite score is carried exactly, in units of 1/12000.              *)

\* The sites of _buildMockQueueDict, in its order (the first two of four).
MockSites == <<"CERN.ch", "RAL.uk">>

\* range(1, 3), cut to its first CE.
MockCENumbers == <<1>>

MockClasses == <<"short", "long">>

MockQueueOrder ==
    LET nce == Len(MockCENumbers)
        ncl == Len(MockClasses)
    IN [i \in 1..(Len(MockSites) * nce * ncl) |->
           <<MockSites[((i - 1) \div (nce * ncl)) + 1],
             MockCENumbers[(((i - 1) \div ncl) % nce) + 1],
             MockClasses[((i - 1) % ncl) + 1]>>]

MockQdict(name) ==
    [Site |-> name[1],
     CEName |-> <<name[2], name[1]>>,
     CE |-> <<name[2], name[1]>>,
     ParametersDict |->
        [CPUTime |-> IF name[3] = "short" THEN 3600 ELSE 86400,
         MaxTotalJobs |-> 300,
         MaxWaitingJobs |-> 100]]

\* d[name] = value for every name of order, on an ordered dict: a key
\* already there keeps its place, a new key goes to the end.
AssignAll(d, order) ==
    LET given == {order[i] : i \in 1..Len(order)}
        fresh == [i \in 1..Len(order) |->
                     [name |-> order[i], qdict |-> MockQdict(order[i])]]
    IN [i \in 1..Len(d) |->
           IF d[i].name \in given
           THEN [name |-> d[i].name, qdict |-> MockQdict(d[i].name)]
           ELSE d[i]]
       \o SelectSeq(fresh, LAMBDA item : item.name \notin Names(d))

buildMockQueueDict ==
    /\ program = "MockDirector"
    /\ queueDict' = AssignAll(queueDict, MockQueueOrder)
    /\ stage' = "built"
    /\ external_data' = <<>>
    /\ ce_stats' = <<>>
    /\ rerank' = <<>>
    /\ UNCHANGED <<program, queueCECache, catalog, cycleResult, submitted, resolved,
                   cacheSeen, probeLog>>

\* _mockExternalMetrics, for the sites modelled.
mockExternalMetrics ==
    [s \in {"CERN.ch", "RAL.uk"} |->
        IF s = "CERN.ch" THEN [CO2 |-> 1540] ELSE [CO2 |-> 3310]]

\* The external_data arguments tried: the mock metrics, the mock metrics
\* without RAL.uk, and the two sites level or one hundredth apart.
ExternalChoices ==
    {mockExternalMetrics, [s \in {"CERN.ch"} |-> [CO2 |-> 1540]]}
    \cup {[s \in {"CERN.ch", "RAL.uk"} |->
              IF s = "CERN.ch" THEN [CO2 |-> a] ELSE [CO2 |-> 1540]] :
            a \in {1540, 1541}}

\* MockCE.available(): running in 10..200, waiting in 0..50, max_total 300.
LoadSnapshots ==
    {[kind |-> "OK", RunningJobs |-> 10 + 3 * i, WaitingJobs |-> 0,
      MaxTotalJobs |-> 300] : i \in 0..MaxLoadSteps}

\* A CE whose available() returns S_ERROR, or raises.
FailedProbes ==
    {[kind |-> k, RunningJobs |-> 0, WaitingJobs |-> 0, MaxTotalJobs |-> 300] :
        k \in {"ERROR", "RAISE"}}

\* external_data.get(site, {}).get("CO2", 100.0)
CO2Of(ext, site) ==
    IF site \in DOMAIN ext /\ "CO2" \in DOMAIN ext[site] THEN ext[site].CO2
    ELSE 10000

\* round(): n / d to the nearest integer, ties to even.
RoundHalfEven(n, d) ==
    LET q == n \div d
        r == n % d
    IN IF 2 * r < d THEN q
       ELSE IF 2 * r > d THEN q + 1
       ELSE IF q % 2 = 0 THEN q ELSE q + 1

\* score = co2 * 0.5 + (cpu_time / 3600.0) * 0.3 + load_factor * 100 * 0.2,
\* times 12000 (every snapshot modelled has max_total dividing 240000).
Score(co2, cpu_time, stat) ==
    60 * co2 + cpu_time
    + (240000 * (stat.RunningJobs + stat.WaitingJobs)) \div stat.MaxTotalJobs

\* round(score, 2), in hundredths.
Round2(score) == RoundHalfEven(score, 120)

\* round(load_factor, 2), in hundredths.
LoadFactor(stat) ==
    RoundHalfEven(100 * (stat.RunningJobs + stat.WaitingJobs), stat.MaxTotalJobs)

\* The unrounded score of one item.
ItemScore(item, ext, stat) ==
    Score(CO2Of(ext, item.qdict.Site), Params(item).CPUTime, stat)

\* The loop body of _computeQueueScores on one item.
ScoreItem(item, ext, stat) ==
    [item EXCEPT !.qdict.ParametersDict =
        ("CompositeScore" :> Round2(ItemScore(item, ext, stat)))
        @@ ("LoadFactor" :> LoadFactor(stat))
        @@ Params(item)]

\* The loop body raises: KeyError on a ParametersDict without CPUTime or on a
\* result without CEInfoDict, or whatever available() raises.
ItemRaises(item, stat) ==
    \/ "CPUTime" \notin DOMAIN Params(item)
    \/ stat.kind # "OK"

ExceptionOf(item, stat) ==
    IF "CPUTime" \notin DOMAIN Params(item) THEN "KeyError"
    ELSE IF stat.kind = "ERROR" THEN "KeyError"
    ELSE "ProbeException"

\* A descending sort.
KeyDescending(item) == <<0 - Params(item).CompositeScore>>

\* The sort key of _computeQueueScores: the rounded score.
SortKeyB(item) == <<Params(item).CompositeScore>>

\* The sites whose CO2 the argument ext raises over the call before, every
\* other site of the queues keeping its own.
RaisedSites(ext) ==
    LET sites == {queueDict[i].qdict.Site : i \in 1..Len(queueDict)}
    IN {s \in sites :
           /\ CO2Of(ext, s) > CO2Of(external_data, s)
           /\ \A t \in sites \ {s} : CO2Of(ext, t) = CO2Of(external_data, t)}

computeQueueScores(ext, probes) ==
    /\ program = "MockDirector"
    /\ external_data' = ext
    /\ rerank' = IF /\ stage = "scored"
                    /\ \A i \in 1..Len(queueDict) :
                          probes[i] = ce_stats[i] /\ probes[i].kind = "OK"
                    /\ RaisedSites(ext) # {}
                 THEN <<[site |-> CHOOSE s \in RaisedSites(ext) : TRUE,
                         before |-> NameSeq(queueDict)]>>
                 ELSE <<>>
    /\ LET failing == {i \in 1..Len(queueDict) : ItemRaises(queueDict[i], probes[i])}
       IN IF failing = {}
          THEN \E ranked \in
                    {sorted([i \in 1..Len(queueDict) |->
                        [key |-> SortKeyB(ScoreItem(queueDict[i], ext, probes[i])),
                         item |-> ScoreItem(queueDict[i], ext, probes[i]),
                         stat |-> probes[i]]])} :
                  /\ queueDict' = Undecorate(ranked)
                  /\ ce_stats' = [i \in 1..Len(ranked) |-> ranked[i].stat]
                  /\ cycleResult' = "OK"
                  /\ stage' = "scored"
          ELSE LET f == CHOOSE i \in failing : \A j \in failing : i <= j
               IN /\ queueDict' =
                       [i \in 1..Len(queueDict) |->
                           IF i < f THEN ScoreItem(queueDict[i], ext, probes[i])
                           ELSE queueDict[i]]
                  /\ ce_stats' = probes
                  /\ cycleResult' = ExceptionOf(queueDict[f], probes[f])
                  /\ stage' = "raised"
    /\ UNCHANGED <<program, queueCECache, catalog, submitted, resolved, cacheSeen,
                   probeLog>>

MockBuildStep == buildMockQueueDict

ScoreStep ==
    \E ext \in ExternalChoices :
        \E probes \in [1..Len(queueDict) -> LoadSnapshots] :
            computeQueueScores(ext, probes)

----------------------------------------------------------------------------

InitCommon ==
    /\ queueDict = <<>>
    /\ queueCECache = {}
    /\ stage = "begin"
    /\ cycleResult = "none"
    /\ submitted = FALSE
    /\ resolved = <<>>
    /\ cacheSeen = <<>>
    /\ probeLog = <<>>
    /\ external_data = <<>>
    /\ ce_stats = <<>>
    /\ rerank = <<>>

InitA == InitCommon /\ program = "GreenSiteDirector" /\ catalog \in WellFormedCatalogs

InitAgent == InitCommon /\ program = "SiteInfoAgent" /\ catalog \in WellFormedCatalogs

InitAMalformed ==
    InitCommon /\ program = "GreenSiteDirector" /\ catalog \in MalformedCatalogs

InitB == InitCommon /\ program = "MockDirector" /\ catalog = <<>>

Init == InitA \/ InitB \/ InitAgent

Next == BuildStep \/ ExecuteStep \/ MockBuildStep \/ ScoreStep \/ AgentStep

Spec == Init /\ [][Next]_vars

----------------------------------------------------------------------------
(* The same handlers against collaborators that break the data model: a    *)
(* resolver that returns a descriptor without ParametersDict or CPUTime,   *)
(* a CE whose available() fails.                                           *)

\* A descriptor of the mock director loses its CPUTime.
dropCPUTime(i) ==
    /\ program = "MockDirector"
    /\ stage = "built"
    /\ i \in 1..Len(queueDict)
    /\ "CPUTime" \in DOMAIN Params(queueDict[i])
    /\ \A j \in 1..Len(queueDict) : "CPUTime" \in DOMAIN Params(queueDict[j])
    /\ queueDict' =
          [queueDict EXCEPT ![i].qdict.ParametersDict =
              [k \in DOMAIN Params(queueDict[i]) \ {"CPUTime"} |->
                  Params(queueDict[i])[k]]]
    /\ UNCHANGED <<program, queueCECache, catalog, stage, cycleResult, submitted,
                   resolved, cacheSeen, probeLog, external_data, ce_stats, rerank>>

MalformStep == \E i \in 1..Len(queueDict) : dropCPUTime(i)

\* What one call of available() gives when CEs may fail: the lightest load
\* snapshot, a not-OK result, or an exception.
FaultyProbes ==
    {s \in LoadSnapshots : \A t \in LoadSnapshots : s.RunningJobs <= t.RunningJobs}
        \cup FailedProbes

ScoreStepFaulty ==
    \E probes \in [1..Len(queueDict) -> FaultyProbes] :
        computeQueueScores(mockExternalMetrics, probes)

InitFault == InitAMalformed \/ InitB

NextFault ==
    BuildStep \/ ExecuteStep \/ MockBuildStep \/ ScoreStepFaulty \/ MalformStep

SpecFault == InitFault /\ [][NextFault]_vars

----------------------------------------------------------------------------
(* Vocabulary of the properties.                                           *)

IsDirector == program = "GreenSiteDirector"
IsMock == program = "MockDirector"
IsAgent == program = "SiteInfoAgent"

\* _buildQueueDict has just returned S_OK and its resolver call succeeded.
BuiltAfterResolving == IsDirector /\ stage = "execute" /\ resolved # <<>>

\* _computeQueueScores has just returned.
Scored == IsMock /\ stage = "scored"

\* _computeQueueScores has just returned, or raised.
ScoringEnded == IsMock /\ stage \in {"scored", "raised"}

Before(d, n, m) == Position(d, n) < Position(d, m)

ItemOf(d, n) == d[Position(d, n)]

\* (PUE, CI) of a is not greater than (PUE, CI) of b.
KeyLeq(a, b) ==
    \/ Params(a).PUE < Params(b).PUE
    \/ Params(a).PUE = Params(b).PUE /\ Params(a).CI <= Params(b).CI

SameKey(a, b) == Params(a).PUE = Params(b).PUE /\ Params(a).CI = Params(b).CI

HasScore(item) == "CompositeScore" \in DOMAIN Params(item)

\* f"{site}-{ce_name}-{q}" of n is smaller than that of m as a string.
NameLess(n, m) ==
    LET siteRank(x) == IF x = "CERN.ch" THEN 1 ELSE 2
        classRank(x) == IF x = "long" THEN 1 ELSE 2
    IN LexLess(<<siteRank(n[1]), n[2], classRank(n[3])>>,
               <<siteRank(m[1]), m[2], classRank(m[3])>>)

\* The unrounded score behind queueDict[i].
Unrounded(i) == ItemScore(queueDict[i], external_data, ce_stats[i])

----------------------------------------------------------------------------
(* C1: a cycle whose getQueues call returns a not-OK result returns that   *)
(* error, leaves no ranked queue list behind (queueDict is empty, not the  *)
(* list of an earlier cycle) and does not invoke the submission step.      *)
C1_CatalogErrorLeavesNoList ==
    cycleResult = "CatalogError" => queueDict = <<>> /\ ~submitted

(* C2: when the probe of some CEs fails (not-OK result or exception) the   *)
(* scoring still completes, every queue carries a CompositeScore, and the  *)
(* queues whose probe succeeded carry the score of their own snapshot and  *)
(* stand in ascending order of it.                                         *)
C2_FailSoftProbing ==
    (ScoringEnded /\ \E i \in 1..Len(ce_stats) : ce_stats[i].kind # "OK") =>
        /\ stage = "scored"
        /\ \A i \in 1..Len(queueDict) : HasScore(queueDict[i])
        /\ \A i \in 1..Len(queueDict) :
              ce_stats[i].kind = "OK" =>
                  Params(queueDict[i]).CompositeScore = Round2(Unrounded(i))
        /\ \A i, j \in 1..Len(queueDict) :
              (i < j /\ ce_stats[i].kind = "OK" /\ ce_stats[j].kind = "OK") =>
                  Params(queueDict[i]).CompositeScore
                      <= Params(queueDict[j]).CompositeScore

(* C3: Variant B ranks on unrounded scores: a queue whose unrounded score  *)
(* is smaller than another's precedes it, also when both round to the     *)
(* same CompositeScore.                                                    *)
C3_RankedOnUnrounded ==
    Scored => \A i, j \in 1..Len(queueDict) :
                  Unrounded(i) < Unrounded(j) => i < j

(* C4: whenever _buildQueueDict returns OK after resolving queues,         *)
(* queueDict is in non-decreasing order of (PUE, CI), compared             *)
(* lexicographically, and queues with equal (PUE, CI) keep the order in    *)
(* which the resolver returned them.                                       *)
C4_VariantAOrdering ==
    BuiltAfterResolving =>
        \A i, j \in 1..Len(queueDict) :
            i < j =>
                /\ KeyLeq(queueDict[i], queueDict[j])
                /\ SameKey(queueDict[i], queueDict[j]) =>
                       Before(resolved[1], queueDict[i].name, queueDict[j].name)

\* Two queues tie on (PUE, CI) and the one resolved first, q2, stays first.
C4_Witness ==
    /\ BuiltAfterResolving
    /\ Len(queueDict) = 2
    /\ SameKey(queueDict[1], queueDict[2])
    /\ queueDict[1].name = "q2"

(* C5: after _computeQueueScores the list is in ascending order of         *)
(* composite score, and queues with equal composite scores are in          *)
(* ascending order of queue name, whatever their insertion order.          *)
C5_TiesByName ==
    Scored =>
        \A i, j \in 1..Len(queueDict) :
            i < j =>
                /\ Params(queueDict[i]).CompositeScore
                       <= Params(queueDict[j]).CompositeScore
                /\ Unrounded(i) = Unrounded(j) =>
                       NameLess(queueDict[i].name, queueDict[j].name)

(* C5, amended: when _computeQueueScores returns, the list is in ascending *)
(* order of the stored CompositeScore, and queues with equal               *)
(* CompositeScore keep the order they had in queueDict before the call.    *)
C5_TiesByInsertion ==
    [][(IsMock /\ stage' = "scored") =>
          \A i, j \in 1..Len(queueDict') :
              i < j =>
                  /\ Params(queueDict'[i]).CompositeScore
                         <= Params(queueDict'[j]).CompositeScore
                  /\ Params(queueDict'[i]).CompositeScore
                         = Params(queueDict'[j]).CompositeScore =>
                         Before(queueDict, queueDict'[i].name, queueDict'[j].name)
      ]_vars

\* Two queues have the same score and the one with the greater name is first.
C5_Witness ==
    /\ Scored
    /\ \E i, j \in 1..Len(queueDict) :
          /\ i < j
          /\ Unrounded(i) = Unrounded(j)
          /\ NameLess(queueDict[j].name, queueDict[i].name)

(* C6: a queue descriptor without the parameter the ranking needs          *)
(* (ParametersDict in Variant A, CPUTime in Variant B) does not abort the  *)
(* batch: no exception leaves the operation, the well-formed queues are    *)
(* scored and in sorted order, and the malformed queue is left out or      *)
(* ranked behind them.                                                     *)
C6_MalformedQueueIsolated ==
    /\ (BuiltAfterResolving /\ \E i \in 1..Len(resolved[1]) : ~HasParams(resolved[1][i])) =>
          \A i, j \in 1..Len(queueDict) :
              i < j =>
                  /\ HasParams(queueDict[j]) => HasParams(queueDict[i])
                  /\ (HasParams(queueDict[i]) /\ HasParams(queueDict[j])) =>
                         KeyLeq(queueDict[i], queueDict[j])
    /\ (ScoringEnded /\ \E i \in 1..Len(queueDict) :
                            "CPUTime" \notin DOMAIN Params(queueDict[i])) =>
          /\ stage = "scored"
          /\ \A i \in 1..Len(queueDict) :
                "CPUTime" \in DOMAIN Params(queueDict[i]) => HasScore(queueDict[i])

(* C7: the annotate step of _buildQueueDict touches only missing fields:   *)
(* a PUE or CI a queue already carries is unchanged, a missing PUE is set  *)
(* within [1.0, 2.0] and a missing CI within [100.0, 500.0], the other     *)
(* parameters stay, and afterwards every queue carries both.               *)
C7_SynthesisOnlyWhereMissing ==
    BuiltAfterResolving =>
        /\ Names(queueDict) = Names(resolved[1])
        /\ \A i \in 1..Len(resolved[1]) :
              LET before == Params(resolved[1][i])
                  after == Params(ItemOf(queueDict, resolved[1][i].name))
              IN /\ {"PUE", "CI"} \subseteq DOMAIN after
                 /\ IF "PUE" \in DOMAIN before THEN after.PUE = before.PUE
                    ELSE after.PUE \in 100..200
                 /\ IF "CI" \in DOMAIN before THEN after.CI = before.CI
                    ELSE after.CI \in 1000..5000
                 /\ \A k \in DOMAIN before : after[k] = before[k]
                 /\ DOMAIN after = DOMAIN before \cup {"PUE", "CI"}

\* A queue came with its PUE published and its CI missing.
C7_Witness ==
    /\ BuiltAfterResolving
    /\ \E i \in 1..Len(resolved[1]) :
          /\ "PUE" \in DOMAIN Params(resolved[1][i])
          /\ "CI" \notin DOMAIN Params(resolved[1][i])

(* C8: ranking the same queues with the same loads again after raising the *)
(* CO2 of the site of queue a alone never moves a ahead of a queue b of    *)
(* another site: if b preceded a before, b precedes a afterwards.          *)
C8_MonotoneInCO2 ==
    (Scored /\ rerank # <<>>) =>
        \A i, j \in 1..Len(queueDict) :
            (/\ queueDict[i].qdict.Site = rerank[1].site
             /\ queueDict[j].qdict.Site # rerank[1].site
             /\ \E x, y \in 1..Len(rerank[1].before) :
                   /\ x < y
                   /\ rerank[1].before[x] = queueDict[j].name
                   /\ rerank[1].before[y] = queueDict[i].name)
            => j < i

\* The raise moved a queue of the raised site behind a queue it preceded.
C8_Witness ==
    /\ Scored
    /\ rerank # <<>>
    /\ \E i, j \in 1..Len(queueDict) :
          /\ j < i
          /\ queueDict[i].qdict.Site = rerank[1].site
          /\ queueDict[j].qdict.Site # rerank[1].site
          /\ \E x, y \in 1..Len(rerank[1].before) :
                /\ x < y
                /\ rerank[1].before[x] = queueDict[i].name
                /\ rerank[1].before[y] = queueDict[j].name

(* C9: the CE-instance cache persists across cycles: running a cycle never *)
(* empties or replaces it, and what one cycle put in it is in the cache    *)
(* the next cycle hands to the resolver.                                   *)
C9_CachePersists ==
    [][/\ queueCECache \subseteq queueCECache'
       /\ (IsAgent /\ cacheSeen' # <<>>) => queueCECache \subseteq cacheSeen'[1]
      ]_vars

(* C10: ranking is a permutation: when the sort of either variant          *)
(* completes, queueDict holds the queue names it held before the sort,     *)
(* each once, and each name maps to the same site, CE name and CE handle.  *)
C10_RankingIsPermutation ==
    [][/\ (IsDirector /\ stage' = "execute" /\ resolved' # <<>>) =>
             /\ Len(queueDict') = Len(resolved'[1])
             /\ Names(queueDict') = Names(resolved'[1])
             /\ \A i \in 1..Len(queueDict') :
                   LET was == ItemOf(resolved'[1], queueDict'[i].name).qdict
                       is == queueDict'[i].qdict
                   IN is.Site = was.Site /\ is.CEName = was.CEName /\ is.CE = was.CE
       /\ (IsMock /\ stage' = "scored") =>
             /\ Len(queueDict') = Len(queueDict)
             /\ Names(queueDict') = Names(queueDict)
             /\ \A i \in 1..Len(queueDict') :
                   LET was == ItemOf(queueDict, queueDict'[i].name).qdict
                       is == queueDict'[i].qdict
                   IN is.Site = was.Site /\ is.CEName = was.CEName /\ is.CE = was.CE
      ]_vars

\* The sort of the mock director moved queues with equal scores among them.
C10_Witness ==
    /\ Scored
    /\ Len(queueDict) = Len(MockQueueOrder)
    /\ NameSeq(queueDict) # MockQueueOrder
    /\ \E i, j \in 1..Len(queueDict) :
          i # j /\ Params(queueDict[i]).CompositeScore
                       = Params(queueDict[j]).CompositeScore

====
